---- MODULE Spec2Model ----
(***************************************************************************)
(* ESP32-fluid-simulation.ino: the simulation task (sim_routine) and the   *)
(* render task (draw_routine) sharing the velocity and colour fields       *)
(* through color_mutex and color_semaphore.                                *)
(*                                                                         *)
(* Two FreeRTOS tasks created without core affinity on a dual-core part:   *)
(* every interleaving of their steps is a behaviour.  Each task is cut at  *)
(* its allocations, its frees and its synchronisation calls.               *)
(***************************************************************************)
EXTENDS Integers, Sequences, FiniteSets, TLC

(* ------------------------------------------------------------------ *)
(* Build-time configuration (lines 9-14, 17, 24)                       *)
(* ------------------------------------------------------------------ *)
N_ROWS == 80
N_COLS == 60
SCALING == 4
TILE_HEIGHT == 80
TILE_WIDTH == 60
\* DT = 0.1 as the fraction DT_NUM/DT_DEN
DT_NUM == 1
DT_DEN == 10

SCREEN_HEIGHT == N_ROWS * SCALING
SCREEN_WIDTH == N_COLS * SCALING
N_TILES == SCREEN_HEIGHT \div TILE_HEIGHT
M_TILES == SCREEN_WIDTH \div TILE_WIDTH

(* ------------------------------------------------------------------ *)
(* Bounds of the model                                                 *)
(* ------------------------------------------------------------------ *)
\* number of heap slots a Field can be allocated in
HeapSize == 7
\* the commit counter of the frame tags wraps at NEpochs
NEpochs == 2
\* the count of commits not yet drawn saturates at MaxUnread
MaxUnread == 2
\* the lead of commits completed over passes started is counted up to
\* MaxAhead: the count is never above the lead
MaxAhead == 3
\* the 5 s report is due at the latest after MaxRefresh further ticks
MaxRefresh == 1

(* ------------------------------------------------------------------ *)
(* Values                                                              *)
(* ------------------------------------------------------------------ *)
NULL == 0
Slots == 1..HeapSize
Cells == (0..(N_ROWS-1)) \X (0..(N_COLS-1))

\* Vector<float>: <<x, y>>; operator+= of Vector.h
VecAdd(a, b) == <<a[1] + b[1], a[2] + b[2]>>

\* line 103
dv == <<0, 10>>

\* the velocity fields the numerical operators (operations.h) are taken to
\* produce: flow 0 is the fluid at rest, flow 1 a non-uniform flow
FlowKinds == {0, 1}
FlowAt(k, i, j) == <<k * ((i + j) % 2), -k * (i % 3)>>

\* A Field<Vector<float>> is kept as the flow an operator wrote in all its
\* cells and the cells written through index() since, with their values.
FlowField(k) == [flow |-> k, written |-> <<>>]

\* Field<T>::index(i, j), for an interior cell (i, j)
Index(f, i, j) ==
    IF <<i, j>> \in DOMAIN f.written
    THEN f.written[<<i, j>>]
    ELSE FlowAt(f.flow, i, j)

\* Field<T>::index(i, j) += d
IndexAdd(f, i, j, d) ==
    [f EXCEPT !.written = (<<i, j>> :> VecAdd(Index(f, i, j), d)) @@ @]

\* index(i, j) addresses an interior cell for 0 <= i < rows, 0 <= j < cols
InRows(i) == 0 <= i /\ i < N_ROWS
InCols(j) == 0 <= j /\ j < N_COLS

\* lines 235-236: the values of i and j in the loops of setup
setup_i == 0..(N_ROWS - 1)
setup_j == 0..(N_COLS - 1)

\* a scan with i <= N_ROWS
scan_i_inclusive == 0..N_ROWS

\* lines 168-169: the values of i and j in the scan of the diagnostic
scan_i == 0..(N_ROWS - 1)
scan_j == 0..(N_COLS - 1)

\* lines 105-108: the cells indexed by the forcing step, in order
forced_cells ==
    LET center_i == N_ROWS \div 2
        center_j == N_COLS \div 2
    IN  <<<<center_i, center_j>>, <<center_i + 1, center_j>>,
          <<center_i, center_j + 1>>, <<center_i + 1, center_j + 1>>>>

\* times are counted in operations of the simulation task, from the
\* moment last_reported was last set (lines 215, 257)
last_reported == 0

\* no pushImageDMA has been started yet (tft.initDMA(), line 75)
NoTransfer == -1

\* content of a colour buffer: the channel written in it and the tag of the
\* commit (or of setup, tag 0) that wrote it; Blank for any other slot
Blank == <<"none", 0>>

VARIABLES
    heap,               \* slot -> "free" | "live" : the Fields on the heap
    content,            \* slot -> what a colour buffer holds
    velocity,           \* cells of *velocity_field
    velocity_field, red_field, green_field, blue_field,     \* lines 28-29
    color_mutex,        \* "free" | "sim" | "draw" : the holder (line 26)
    color_semaphore,    \* 0 | 1 : binary semaphore (line 27)
    refresh_count,      \* line 34
    sim_pc,             \* position of sim_routine
    to_delete_vector, temp_vector_field,                    \* lines 88-89
    divergence_field, pressure_field,                       \* lines 113-114
    pin0,               \* what digitalRead(0) returned at line 104
    temp_color_field,   \* line 130
    new_divergence_field,                                   \* line 166
    draw_pc,            \* position of draw_routine
    arg_red, arg_green, arg_blue,   \* parameters of draw_color_field
    buffer_select, ii, jj,          \* lines 42, 45, 46
    \* history variables
    epoch,              \* tag of the latest commit begun
    tick_log,           \* what sim_routine did in this tick, in order
    pre_red, pre_green, pre_blue,   \* the references when the commit began
    tile_read,          \* contents sampled for the latest tile
    pass_read,          \* contents sampled for the first tile of the pass
    pushed,             \* the tiles handed to pushImageDMA in this pass
    dma_buffer,         \* the tile buffer of the latest pushImageDMA
    unread,             \* commits completed since a pass last started
    ahead,              \* commits completed minus passes started
    point_timestamps,   \* line 32, in operations since last_reported
    max_abs_pct_density,            \* line 33
    current_abs_pct_density,        \* line 165
    reported,           \* time_taken, total_time, pct_taken of the last report
    index_fault         \* an index(i, j) outside the interior has been used

fields == <<velocity_field, red_field, green_field, blue_field>>
sim_locals == <<to_delete_vector, temp_vector_field, pin0, divergence_field,
                pressure_field, temp_color_field, new_divergence_field>>
draw_locals == <<arg_red, arg_green, arg_blue, buffer_select, ii, jj>>
draw_hist == <<tile_read, pass_read, pushed, dma_buffer>>
sim_hist == <<epoch, tick_log, pre_red, pre_green, pre_blue>>
telemetry == <<point_timestamps, max_abs_pct_density,
               current_abs_pct_density, reported>>
vars == <<heap, content, velocity, fields, color_mutex, color_semaphore,
          refresh_count, sim_pc, sim_locals, draw_pc, draw_locals,
          sim_hist, draw_hist, unread, ahead, telemetry, index_fault>>

(* ------------------------------------------------------------------ *)
(* Heap: new Field<T>(...) and delete                                  *)
(* ------------------------------------------------------------------ *)
FreeSlots(h) == {s \in Slots : h[s] = "free"}
\* operator new: the allocator's choice among free slots is immaterial
NewSlot(h) == CHOOSE s \in FreeSlots(h) : \A t \in FreeSlots(h) : s <= t
Live(h) == {s \in Slots : h[s] = "live"}

(* ------------------------------------------------------------------ *)
(* FreeRTOS primitives (portMAX_DELAY: wait without timeout)           *)
(* ------------------------------------------------------------------ *)
\* xSemaphoreCreateBinary(), line 261: a queue of length 1, created empty
SemaphoreLength == 1

\* a take that does not wait for the holder
MutexTake_unguarded(t) ==
    color_mutex' = t

\* xSemaphoreTake(color_mutex, portMAX_DELAY) by task t
MutexTake(t) ==
    /\ color_mutex = "free"
    /\ color_mutex' = t

\* xSemaphoreGive(color_mutex) by task t
MutexGive(t) ==
    color_mutex' = IF color_mutex = t THEN "free" ELSE color_mutex

\* a take that returns without a notification
SemaphoreTake_nowait ==
    color_semaphore' = 0

\* xSemaphoreTake(color_semaphore, portMAX_DELAY)
SemaphoreTake ==
    /\ color_semaphore > 0
    /\ color_semaphore' = color_semaphore - 1

\* a give that counts every notification
SemaphoreGive_counting ==
    color_semaphore' = color_semaphore + 1

\* a give that waits until the notification before it has been taken
SemaphoreGive_waiting ==
    /\ color_semaphore < SemaphoreLength
    /\ color_semaphore' = color_semaphore + 1

\* xSemaphoreGive(color_semaphore): the call never waits; a binary semaphore
\* already given stays given
SemaphoreGive ==
    color_semaphore' = IF color_semaphore < SemaphoreLength
                       THEN color_semaphore + 1
                       ELSE color_semaphore

(* ------------------------------------------------------------------ *)
(* setup(), lines 221-267                                              *)
(* ------------------------------------------------------------------ *)
Init ==
    /\ heap = [s \in Slots |-> IF s <= 4 THEN "live" ELSE "free"]
    /\ velocity_field = 1
    /\ red_field = 2
    /\ green_field = 3
    /\ blue_field = 4
    /\ content = [s \in Slots |->
                    CASE s = 2 -> <<"red", 0>>
                      [] s = 3 -> <<"green", 0>>
                      [] s = 4 -> <<"blue", 0>>
                      [] OTHER -> Blank]
    /\ velocity = FlowField(0)
    /\ color_semaphore = 0
    /\ color_mutex = "free"
    /\ refresh_count = 0
    /\ sim_pc = "new_velocity"
    /\ draw_pc = "init"
    /\ to_delete_vector = NULL
    /\ temp_vector_field = NULL
    /\ pin0 = "none"
    /\ divergence_field = NULL
    /\ pressure_field = NULL
    /\ temp_color_field = NULL
    /\ new_divergence_field = NULL
    /\ arg_red = NULL
    /\ arg_green = NULL
    /\ arg_blue = NULL
    /\ buffer_select = 0
    /\ ii = 0
    /\ jj = 0
    /\ epoch = 0
    /\ tick_log = <<>>
    /\ pre_red = NULL
    /\ pre_green = NULL
    /\ pre_blue = NULL
    /\ tile_read = <<Blank, Blank, Blank>>
    /\ pass_read = <<Blank, Blank, Blank>>
    /\ pushed = <<>>
    /\ dma_buffer = NoTransfer
    /\ unread = 0
    /\ ahead = 0
    /\ point_timestamps = [k \in 0..4 |-> 0]
    /\ max_abs_pct_density = 0
    /\ current_abs_pct_density = 0
    /\ reported = <<>>
    /\ index_fault = ~(/\ \A i \in setup_i : InRows(i)
                        /\ \A j \in setup_j : InCols(j))

(* ------------------------------------------------------------------ *)
(* Numerical operators of operations.h on the velocity field           *)
(* ------------------------------------------------------------------ *)
\* every cell is <<0, 0>>: flow 0 with no other value written
AtRest(v) ==
    /\ v.flow = 0
    /\ \A c \in DOMAIN v.written : v.written[c] = <<0, 0>>

\* semilagrangian_advect(dest, velocity_field, velocity_field, DT): a field
\* at rest is carried onto itself; any other flow gives some flow
AdvectedVelocity(v) ==
    IF AtRest(v) THEN {v} ELSE {FlowField(k) : k \in FlowKinds}

\* divergence, gauss_seidel_pressure, gradient_and_subtract: a field at
\* rest has no divergence and stays; any other flow gives some flow
ProjectedVelocity(v) ==
    IF AtRest(v) THEN {v} ELSE {FlowField(k) : k \in FlowKinds}

\* semilagrangian_advect(dest, src, velocity_field, DT) on colour buffers:
\* every cell of dest is written from src, in the commit tagged e
AdvectedColor(cont, dest, src, e) ==
    [cont EXCEPT ![dest] = <<cont[src][1], e>>]

\* divergence(new_divergence_field, velocity_field) and the scan of lines
\* 168-171, for a field as an operator left it (no cell written since): the
\* central differences of FlowAt(k) are 0 along j and k/2, -k, k/2 along i,
\* so the largest |divergence| over the cells is k
MaxAbsDivergence(v) == v.flow

\* line 172: 100 * current_abs_divergence * DT
PctDensity(v) == (100 * MaxAbsDivergence(v) * DT_NUM) \div DT_DEN

(* ------------------------------------------------------------------ *)
(* sim_routine, lines 85-218                                           *)
(* ------------------------------------------------------------------ *)
Logged(op, slot) == tick_log' = Append(tick_log, <<op, slot>>)

\* millis(), read once the operations of the step are done
millis == last_reported + Len(tick_log')

\* if(refresh_count == 0) point_timestamps[k] = millis();
Stamp(k) ==
    /\ point_timestamps' = IF refresh_count = 0
                           THEN [point_timestamps EXCEPT ![k] = millis]
                           ELSE point_timestamps
    /\ UNCHANGED <<max_abs_pct_density, current_abs_pct_density, reported>>

\* the advection written into the velocity field itself
sim_new_velocity_inplace ==
    /\ sim_pc = "new_velocity"
    /\ to_delete_vector' = velocity_field
    /\ temp_vector_field' = velocity_field
    /\ tick_log' = <<<<"new", velocity_field>>>>
    /\ sim_pc' = "advect_velocity"
    /\ UNCHANGED <<heap, pin0, content, velocity, fields, color_mutex,
                   color_semaphore,
                   refresh_count, divergence_field, pressure_field,
                   temp_color_field, new_divergence_field, draw_pc,
                   draw_locals, epoch, pre_red, pre_green, pre_blue,
                   draw_hist, unread, ahead,
                   telemetry, index_fault>>

\* lines 88-89
sim_new_velocity ==
    /\ sim_pc = "new_velocity"
    /\ FreeSlots(heap) # {}
    /\ to_delete_vector' = velocity_field
    /\ temp_vector_field' = NewSlot(heap)
    /\ heap' = [heap EXCEPT ![NewSlot(heap)] = "live"]
    /\ tick_log' = <<<<"new", NewSlot(heap)>>>>
    /\ sim_pc' = "advect_velocity"
    /\ UNCHANGED <<pin0, content, velocity, fields, color_mutex,
                   color_semaphore,
                   refresh_count, divergence_field, pressure_field,
                   temp_color_field, new_divergence_field, draw_pc,
                   draw_locals, epoch, pre_red, pre_green, pre_blue,
                   draw_hist, unread, ahead,
                   telemetry, index_fault>>

\* lines 90-91
sim_advect_velocity ==
    /\ sim_pc = "advect_velocity"
    /\ velocity' \in AdvectedVelocity(velocity)
    /\ velocity_field' = temp_vector_field
    /\ Logged("advect_velocity", temp_vector_field)
    /\ sim_pc' = "delete_velocity"
    /\ UNCHANGED <<heap, content, red_field, green_field, blue_field,
                   color_mutex, color_semaphore, refresh_count, sim_locals,
                   draw_pc, draw_locals, epoch, pre_red, pre_green, pre_blue,
                   draw_hist, unread, ahead,
                   telemetry, index_fault>>

\* lines 92-95
sim_delete_velocity ==
    /\ sim_pc = "delete_velocity"
    /\ heap' = [heap EXCEPT ![to_delete_vector] = "free"]
    /\ Logged("delete", to_delete_vector)
    /\ Stamp(0)
    /\ sim_pc' = "read_pin"
    /\ UNCHANGED <<content, velocity, fields, color_mutex, color_semaphore,
                   refresh_count, sim_locals, draw_pc, draw_locals, epoch,
                   pre_red, pre_green, pre_blue, draw_hist, unread, ahead,
                   index_fault>>

\* the fourth cell written as (center_i+1, center_j) again
Forced_repeated(v) ==
    LET center_i == N_ROWS \div 2
        center_j == N_COLS \div 2
        v1 == IndexAdd(v, center_i, center_j, dv)
        v2 == IndexAdd(v1, center_i + 1, center_j, dv)
        v3 == IndexAdd(v2, center_i, center_j + 1, dv)
    IN  IndexAdd(v3, center_i + 1, center_j, dv)

\* lines 102-109: the four index(...) += dv, in the order of the code
Forced(v) ==
    LET c == forced_cells
        v1 == IndexAdd(v, c[1][1], c[1][2], dv)
        v2 == IndexAdd(v1, c[2][1], c[2][2], dv)
        v3 == IndexAdd(v2, c[3][1], c[3][2], dv)
    IN  IndexAdd(v3, c[4][1], c[4][2], dv)

\* line 104: digitalRead(0)
sim_read_pin ==
    /\ sim_pc = "read_pin"
    /\ \E level \in {"LOW", "HIGH"} : pin0' = level
    /\ sim_pc' = "force"
    /\ UNCHANGED <<heap, content, velocity, fields, color_mutex,
                   color_semaphore, refresh_count, to_delete_vector,
                   temp_vector_field, divergence_field, pressure_field,
                   temp_color_field, new_divergence_field, draw_pc,
                   draw_locals, sim_hist, draw_hist, unread, ahead,
                   telemetry, index_fault>>

\* lines 104-109: the branch on the level read
sim_force ==
    /\ sim_pc = "force"
    /\ velocity' = IF pin0 = "LOW" THEN Forced(velocity) ELSE velocity
    /\ pin0' = "none"
    /\ index_fault' = (index_fault \/
                        (pin0 = "LOW" /\
                         \E k \in 1..Len(forced_cells) :
                           ~(InRows(forced_cells[k][1]) /\
                             InCols(forced_cells[k][2]))))
    /\ Logged("force", NULL)
    /\ sim_pc' = "new_scratch"
    /\ UNCHANGED <<heap, content, fields, color_mutex, color_semaphore,
                   refresh_count, to_delete_vector, temp_vector_field,
                   divergence_field, pressure_field, temp_color_field,
                   new_divergence_field, draw_pc, draw_locals, epoch,
                   pre_red, pre_green, pre_blue, draw_hist, unread, ahead,
                   telemetry>>

\* lines 113-114
sim_new_scratch ==
    /\ sim_pc = "new_scratch"
    /\ Cardinality(FreeSlots(heap)) >= 2
    /\ LET d == NewSlot(heap)
           h == [heap EXCEPT ![d] = "live"]
           p == NewSlot(h)
       IN  /\ divergence_field' = d
           /\ pressure_field' = p
           /\ heap' = [h EXCEPT ![p] = "live"]
           /\ tick_log' = tick_log \o <<<<"new", d>>, <<"new", p>>>>
    /\ sim_pc' = "project"
    /\ UNCHANGED <<pin0, content, velocity, fields, color_mutex,
                   color_semaphore,
                   refresh_count, to_delete_vector, temp_vector_field,
                   temp_color_field, new_divergence_field, draw_pc,
                   draw_locals, epoch, pre_red, pre_green, pre_blue,
                   draw_hist, unread, ahead,
                   telemetry, index_fault>>

\* lines 115-117
sim_project ==
    /\ sim_pc = "project"
    /\ velocity' \in ProjectedVelocity(velocity)
    /\ Logged("project", velocity_field)
    /\ sim_pc' = "delete_scratch"
    /\ UNCHANGED <<heap, content, fields, color_mutex, color_semaphore,
                   refresh_count, sim_locals, draw_pc, draw_locals, epoch,
                   pre_red, pre_green, pre_blue, draw_hist, unread, ahead,
                   telemetry, index_fault>>

\* lines 118-121
sim_delete_scratch ==
    /\ sim_pc = "delete_scratch"
    /\ heap' = [heap EXCEPT ![divergence_field] = "free",
                            ![pressure_field] = "free"]
    /\ tick_log' = tick_log \o <<<<"delete", divergence_field>>,
                                 <<"delete", pressure_field>>>>
    /\ Stamp(1)
    /\ sim_pc' = "take_mutex"
    /\ UNCHANGED <<content, velocity, fields, color_mutex, color_semaphore,
                   refresh_count, sim_locals, draw_pc, draw_locals, epoch,
                   pre_red, pre_green, pre_blue, draw_hist, unread, ahead,
                   index_fault>>

\* lines 125-126
sim_take_mutex ==
    /\ sim_pc = "take_mutex"
    /\ MutexTake("sim")
    /\ epoch' = (epoch + 1) % NEpochs
    /\ pre_red' = red_field
    /\ pre_green' = green_field
    /\ pre_blue' = blue_field
    /\ Logged("take_mutex", NULL)
    /\ Stamp(2)
    /\ sim_pc' = "new_color"
    /\ UNCHANGED <<heap, content, velocity, fields, color_semaphore,
                   refresh_count, sim_locals, draw_pc, draw_locals,
                   draw_hist, unread, ahead,
                   index_fault>>

\* line 130
sim_new_color ==
    /\ sim_pc = "new_color"
    /\ FreeSlots(heap) # {}
    /\ temp_color_field' = NewSlot(heap)
    /\ heap' = [heap EXCEPT ![NewSlot(heap)] = "live"]
    /\ Logged("new_color", NewSlot(heap))
    /\ sim_pc' = "advect_red"
    /\ UNCHANGED <<pin0, content, velocity, fields, color_mutex,
                   color_semaphore,
                   refresh_count, to_delete_vector, temp_vector_field,
                   divergence_field, pressure_field, new_divergence_field,
                   draw_pc, draw_locals, epoch, pre_red, pre_green, pre_blue,
                   draw_hist, unread, ahead,
                   telemetry, index_fault>>

\* lines 132-135
sim_advect_red ==
    /\ sim_pc = "advect_red"
    /\ content' = AdvectedColor(content, temp_color_field, red_field, epoch)
    /\ red_field' = temp_color_field
    /\ temp_color_field' = red_field
    /\ Logged("swap_red", temp_color_field)
    /\ sim_pc' = "advect_green"
    /\ UNCHANGED <<pin0, heap, velocity, velocity_field, green_field,
                   blue_field,
                   color_mutex, color_semaphore, refresh_count,
                   to_delete_vector, temp_vector_field,
                   divergence_field, pressure_field, new_divergence_field,
                   draw_pc, draw_locals, epoch, pre_red, pre_green, pre_blue,
                   draw_hist, unread, ahead,
                   telemetry, index_fault>>

\* lines 137-140
sim_advect_green ==
    /\ sim_pc = "advect_green"
    /\ content' = AdvectedColor(content, temp_color_field, green_field, epoch)
    /\ green_field' = temp_color_field
    /\ temp_color_field' = green_field
    /\ Logged("swap_green", temp_color_field)
    /\ sim_pc' = "advect_blue"
    /\ UNCHANGED <<pin0, heap, velocity, velocity_field, red_field, blue_field,
                   color_mutex, color_semaphore, refresh_count,
                   to_delete_vector, temp_vector_field,
                   divergence_field, pressure_field, new_divergence_field,
                   draw_pc, draw_locals, epoch, pre_red, pre_green, pre_blue,
                   draw_hist, unread, ahead,
                   telemetry, index_fault>>

\* the third rotation without its last assignment (line 145)
sim_advect_blue_unrotated ==
    /\ sim_pc = "advect_blue"
    /\ content' = AdvectedColor(content, temp_color_field, blue_field, epoch)
    /\ blue_field' = temp_color_field
    /\ Logged("swap_blue", temp_color_field)
    /\ sim_pc' = "delete_color"
    /\ UNCHANGED <<heap, velocity, velocity_field, red_field, green_field,
                   color_mutex, color_semaphore, refresh_count, sim_locals,
                   draw_pc, draw_locals, epoch, pre_red, pre_green, pre_blue,
                   draw_hist, unread, ahead,
                   telemetry, index_fault>>

\* lines 142-145
sim_advect_blue ==
    /\ sim_pc = "advect_blue"
    /\ content' = AdvectedColor(content, temp_color_field, blue_field, epoch)
    /\ blue_field' = temp_color_field
    /\ temp_color_field' = blue_field
    /\ Logged("swap_blue", temp_color_field)
    /\ sim_pc' = "delete_color"
    /\ UNCHANGED <<pin0, heap, velocity, velocity_field, red_field,
                   green_field,
                   color_mutex, color_semaphore, refresh_count,
                   to_delete_vector, temp_vector_field,
                   divergence_field, pressure_field, new_divergence_field,
                   draw_pc, draw_locals, epoch, pre_red, pre_green, pre_blue,
                   draw_hist, unread, ahead,
                   telemetry, index_fault>>

\* line 147 freeing the buffer installed as blue_field
sim_delete_color_installed ==
    /\ sim_pc = "delete_color"
    /\ heap' = [heap EXCEPT ![blue_field] = "free"]
    /\ content' = [content EXCEPT ![blue_field] = Blank]
    /\ Logged("delete_color", blue_field)
    /\ sim_pc' = "give_mutex"
    /\ UNCHANGED <<velocity, fields, color_mutex, color_semaphore,
                   refresh_count, sim_locals, draw_pc, draw_locals, epoch,
                   pre_red, pre_green, pre_blue, draw_hist, unread, ahead,
                   telemetry, index_fault>>

\* line 147
sim_delete_color ==
    /\ sim_pc = "delete_color"
    /\ heap' = [heap EXCEPT ![temp_color_field] = "free"]
    /\ content' = [content EXCEPT ![temp_color_field] = Blank]
    /\ Logged("delete_color", temp_color_field)
    /\ sim_pc' = "give_mutex"
    /\ UNCHANGED <<velocity, fields, color_mutex, color_semaphore,
                   refresh_count, sim_locals, draw_pc, draw_locals, epoch,
                   pre_red, pre_green, pre_blue, draw_hist, unread, ahead,
                   telemetry, index_fault>>

\* line 150 giving color_semaphore in place of color_mutex
sim_give_mutex_signals ==
    /\ sim_pc = "give_mutex"
    /\ SemaphoreGive
    /\ Logged("give_semaphore", NULL)
    /\ sim_pc' = "give_semaphore"
    /\ UNCHANGED <<heap, content, velocity, fields, color_mutex,
                   refresh_count, sim_locals, draw_pc, draw_locals, epoch,
                   pre_red, pre_green, pre_blue, draw_hist, unread, ahead,
                   telemetry, index_fault>>

\* a commit that ends without giving the mutex
sim_give_mutex_kept ==
    /\ sim_pc = "give_mutex"
    /\ unread' = IF unread < MaxUnread THEN unread + 1 ELSE unread
    /\ ahead' = IF ahead < MaxAhead THEN ahead + 1 ELSE ahead
    /\ Logged("give_mutex", NULL)
    /\ sim_pc' = "give_semaphore"
    /\ UNCHANGED <<heap, content, velocity, fields, color_mutex,
                   color_semaphore,
                   refresh_count, sim_locals, draw_pc, draw_locals, epoch,
                   pre_red, pre_green, pre_blue, draw_hist,
                   telemetry, index_fault>>

\* line 150: the commit is complete
sim_give_mutex ==
    /\ sim_pc = "give_mutex"
    /\ MutexGive("sim")
    /\ unread' = IF unread < MaxUnread THEN unread + 1 ELSE unread
    /\ ahead' = IF ahead < MaxAhead THEN ahead + 1 ELSE ahead
    /\ Logged("give_mutex", NULL)
    /\ sim_pc' = "give_semaphore"
    /\ UNCHANGED <<heap, content, velocity, fields, color_semaphore,
                   refresh_count, sim_locals, draw_pc, draw_locals, epoch,
                   pre_red, pre_green, pre_blue, draw_hist,
                   telemetry, index_fault>>

\* a signal that waits for render to have taken the one before
sim_give_semaphore_waits ==
    /\ sim_pc = "give_semaphore"
    /\ color_semaphore = 0
    /\ color_semaphore' = 1
    /\ Logged("give_semaphore", NULL)
    /\ Stamp(3)
    /\ sim_pc' = "new_divergence"
    /\ UNCHANGED <<heap, content, velocity, fields, color_mutex,
                   refresh_count, sim_locals, draw_pc, draw_locals, epoch,
                   pre_red, pre_green, pre_blue, draw_hist, unread, ahead,
                   index_fault>>

\* lines 151-153
sim_give_semaphore ==
    /\ sim_pc = "give_semaphore"
    /\ SemaphoreGive
    /\ Logged("give_semaphore", NULL)
    /\ Stamp(3)
    /\ sim_pc' = "new_divergence"
    /\ UNCHANGED <<heap, content, velocity, fields, color_mutex,
                   refresh_count, sim_locals, draw_pc, draw_locals, epoch,
                   pre_red, pre_green, pre_blue, draw_hist, unread, ahead,
                   index_fault>>

\* lines 165-166
sim_new_divergence ==
    /\ sim_pc = "new_divergence"
    /\ FreeSlots(heap) # {}
    /\ new_divergence_field' = NewSlot(heap)
    /\ heap' = [heap EXCEPT ![NewSlot(heap)] = "live"]
    /\ Logged("new", NewSlot(heap))
    /\ sim_pc' = "diagnostic"
    /\ UNCHANGED <<pin0, content, velocity, fields, color_mutex,
                   color_semaphore,
                   refresh_count, to_delete_vector, temp_vector_field,
                   divergence_field, pressure_field, temp_color_field,
                   draw_pc, draw_locals, epoch, pre_red, pre_green, pre_blue,
                   draw_hist, unread, ahead,
                   telemetry, index_fault>>

\* line 173 without its comparison
sim_diagnostic_overwrites ==
    /\ sim_pc = "diagnostic"
    /\ LET pct == PctDensity(velocity)
       IN  /\ current_abs_pct_density' = pct
           /\ max_abs_pct_density' = pct
    /\ index_fault' = (index_fault \/ ~(/\ \A i \in scan_i : InRows(i)
                                         /\ \A j \in scan_j : InCols(j)))
    /\ Logged("diagnostic", new_divergence_field)
    /\ sim_pc' = "delete_divergence"
    /\ UNCHANGED <<heap, content, velocity, fields, color_mutex,
                   color_semaphore, refresh_count, sim_locals, draw_pc,
                   draw_locals, epoch, pre_red, pre_green, pre_blue,
                   draw_hist, unread, ahead,
                   point_timestamps, reported>>

\* lines 167-173
sim_diagnostic ==
    /\ sim_pc = "diagnostic"
    /\ LET pct == PctDensity(velocity)
       IN  /\ current_abs_pct_density' = pct
           /\ max_abs_pct_density' = IF pct > max_abs_pct_density
                                     THEN pct
                                     ELSE max_abs_pct_density
    /\ index_fault' = (index_fault \/ ~(/\ \A i \in scan_i : InRows(i)
                                         /\ \A j \in scan_j : InCols(j)))
    /\ Logged("diagnostic", new_divergence_field)
    /\ sim_pc' = "delete_divergence"
    /\ UNCHANGED <<heap, content, velocity, fields, color_mutex,
                   color_semaphore, refresh_count, sim_locals, draw_pc,
                   draw_locals, epoch, pre_red, pre_green, pre_blue,
                   draw_hist, unread, ahead,
                   point_timestamps, reported>>

\* the diagnostic divergence field left allocated
sim_delete_divergence_leak ==
    /\ sim_pc = "delete_divergence"
    /\ Logged("delete", new_divergence_field)
    /\ Stamp(4)
    /\ sim_pc' = "report"
    /\ UNCHANGED <<heap, content, velocity, fields, color_mutex,
                   color_semaphore,
                   refresh_count, sim_locals, draw_pc, draw_locals, epoch,
                   pre_red, pre_green, pre_blue, draw_hist, unread, ahead,
                   index_fault>>

\* lines 174-176
sim_delete_divergence ==
    /\ sim_pc = "delete_divergence"
    /\ heap' = [heap EXCEPT ![new_divergence_field] = "free"]
    /\ Logged("delete", new_divergence_field)
    /\ Stamp(4)
    /\ sim_pc' = "report"
    /\ UNCHANGED <<content, velocity, fields, color_mutex, color_semaphore,
                   refresh_count, sim_locals, draw_pc, draw_locals, epoch,
                   pre_red, pre_green, pre_blue, draw_hist, unread, ahead,
                   index_fault>>

\* a total that ends at the commit, point_timestamps[3]
Report_short ==
    LET time_taken == [i \in 0..4 |->
                         IF i = 0
                         THEN point_timestamps[0] - last_reported
                         ELSE point_timestamps[i] - point_timestamps[i - 1]]
        total_time == point_timestamps[3] - last_reported
    IN  [time_taken |-> time_taken,
         total_time |-> total_time,
         pct_taken |-> [i \in 0..4 |-> 100 * time_taken[i]]]

\* lines 185-191, in milliseconds: time_taken[i], total_time and
\* pct_taken[i] = 100 * time_taken[i] / total_time as the fraction
\* pct_taken[i] / total_time
Report ==
    LET time_taken == [i \in 0..4 |->
                         IF i = 0
                         THEN point_timestamps[0] - last_reported
                         ELSE point_timestamps[i] - point_timestamps[i - 1]]
        total_time == point_timestamps[4] - last_reported
    IN  [time_taken |-> time_taken,
         total_time |-> total_time,
         pct_taken |-> [i \in 0..4 |-> 100 * time_taken[i]]]

\* lines 180-216: the report is due when more than 5000 ms have passed
sim_report ==
    /\ sim_pc = "report"
    /\ \E due \in BOOLEAN :
         /\ refresh_count + 1 > MaxRefresh => due
         /\ refresh_count' = IF due THEN 0 ELSE refresh_count + 1
         /\ reported' = IF due THEN Report ELSE reported
    /\ current_abs_pct_density' = 0
    /\ Logged("report", NULL)
    /\ to_delete_vector' = NULL
    /\ temp_vector_field' = NULL
    /\ divergence_field' = NULL
    /\ pressure_field' = NULL
    /\ temp_color_field' = NULL
    /\ new_divergence_field' = NULL
    /\ sim_pc' = "new_velocity"
    /\ UNCHANGED <<pin0, heap, content, velocity, fields, color_mutex,
                   color_semaphore, draw_pc, draw_locals, epoch,
                   pre_red, pre_green, pre_blue, draw_hist, unread, ahead,
                   point_timestamps, max_abs_pct_density,
                   index_fault>>

sim_routine ==
    \/ sim_new_velocity
    \/ sim_advect_velocity
    \/ sim_delete_velocity
    \/ sim_read_pin
    \/ sim_force
    \/ sim_new_scratch
    \/ sim_project
    \/ sim_delete_scratch
    \/ sim_take_mutex
    \/ sim_new_color
    \/ sim_advect_red
    \/ sim_advect_green
    \/ sim_advect_blue
    \/ sim_delete_color
    \/ sim_give_mutex
    \/ sim_give_semaphore
    \/ sim_new_divergence
    \/ sim_diagnostic
    \/ sim_delete_divergence
    \/ sim_report

(* ------------------------------------------------------------------ *)
(* draw_routine, lines 71-82, and draw_color_field, lines 37-69        *)
(* ------------------------------------------------------------------ *)
\* lines 54-56: what the cells of the three fields hold
Sampled(cont, r, g, b) == <<cont[r], cont[g], cont[b]>>

\* lines 47-50: the pixel rectangle of tile (t_i, t_j) and its cell ranges
i_start(t_i) == t_i * TILE_HEIGHT
j_start(t_j) == t_j * TILE_WIDTH
i_end(t_i) == (t_i + 1) * TILE_HEIGHT
j_end(t_j) == (t_j + 1) * TILE_WIDTH
\* the cell range of a tile taken from the pixel coordinate undivided
j_cell_start_pixels(t_j) == j_start(t_j)

i_cell_start(t_i) == i_start(t_i) \div SCALING
j_cell_start(t_j) == j_start(t_j) \div SCALING
i_cell_end(t_i) == i_end(t_i) \div SCALING
j_cell_end(t_j) == j_end(t_j) \div SCALING

\* lines 52-53: the values i_cell and j_cell take in the loops over a tile
i_cells(t_i) == i_cell_start(t_i)..(i_cell_end(t_i) - 1)
j_cells(t_j) == j_cell_start(t_j)..(j_cell_end(t_j) - 1)

\* line 58: where the block of a cell goes in the tile buffer
i_local(i_cell, t_i) == i_cell * SCALING - i_start(t_i)
j_local(j_cell, t_j) == j_cell * SCALING - j_start(t_j)

\* lines 52-63: tile (t_i, t_j) as filled in tile buffer sel and handed to
\* pushImageDMA(j_start, i_start, TILE_WIDTH, TILE_HEIGHT, tile_buffers[sel]):
\* the rectangle, the buffer, the cells sampled and the fillRect offsets
Tile(t_i, t_j, sel) ==
    [x |-> j_start(t_j), y |-> i_start(t_i),
     w |-> TILE_WIDTH, h |-> TILE_HEIGHT,
     buffer |-> sel,
     rows |-> i_cells(t_i), cols |-> j_cells(t_j),
     fill_y |-> {i_local(c, t_i) : c \in i_cells(t_i)},
     fill_x |-> {j_local(c, t_j) : c \in j_cells(t_j)}]

\* a selection that stays on the same tile buffer
Toggled_same(b) == b

\* line 64
Toggled(b) == IF b # 0 THEN 0 ELSE 1

\* lines 73-75
draw_init ==
    /\ draw_pc = "init"
    /\ draw_pc' = "take_semaphore"
    /\ UNCHANGED <<heap, content, velocity, fields, color_mutex,
                   color_semaphore, refresh_count, sim_pc, sim_locals,
                   draw_locals, sim_hist, draw_hist, unread, ahead,
                   telemetry, index_fault>>

\* line 77
draw_take_semaphore ==
    /\ draw_pc = "take_semaphore"
    /\ SemaphoreTake
    /\ draw_pc' = "take_mutex"
    /\ UNCHANGED <<heap, content, velocity, fields, color_mutex,
                   refresh_count, sim_pc, sim_locals, draw_locals, sim_hist,
                   draw_hist, unread, ahead,
                   telemetry, index_fault>>

\* a take with no wait whose result is not looked at
draw_take_mutex_nowait ==
    /\ draw_pc = "take_mutex"
    /\ color_mutex' = IF color_mutex = "free" THEN "draw" ELSE color_mutex
    /\ draw_pc' = "call"
    /\ UNCHANGED <<heap, content, velocity, fields, color_semaphore,
                   refresh_count, sim_pc, sim_locals, draw_locals, sim_hist,
                   draw_hist, unread, ahead,
                   telemetry, index_fault>>

\* line 78
draw_take_mutex ==
    /\ draw_pc = "take_mutex"
    /\ MutexTake("draw")
    /\ draw_pc' = "call"
    /\ UNCHANGED <<heap, content, velocity, fields, color_semaphore,
                   refresh_count, sim_pc, sim_locals, draw_locals, sim_hist,
                   draw_hist, unread, ahead,
                   telemetry, index_fault>>

\* line 79 and lines 42-46: the references are read and passed by value,
\* and the render pass starts
draw_call ==
    /\ draw_pc = "call"
    /\ arg_red' = red_field
    /\ arg_green' = green_field
    /\ arg_blue' = blue_field
    /\ buffer_select' = 0
    /\ ii' = 0
    /\ jj' = 0
    /\ unread' = 0
    /\ ahead' = ahead - 1
    /\ draw_pc' = IF 0 < N_TILES /\ 0 < M_TILES THEN "tile" ELSE "end_write"
    /\ UNCHANGED <<heap, content, velocity, fields, color_mutex,
                   color_semaphore, refresh_count, sim_pc, sim_locals,
                   sim_hist, draw_hist, telemetry, index_fault>>

\* lines 47-64 and the loop heads of lines 45-46: every cell of tile
\* (ii, jj) is sampled in the three fields, the tile is handed to the DMA
\* and the other tile buffer is selected
draw_tile ==
    /\ draw_pc = "tile"
    /\ tile_read' = Sampled(content, arg_red, arg_green, arg_blue)
    /\ pass_read' = IF ii = 0 /\ jj = 0
                    THEN Sampled(content, arg_red, arg_green, arg_blue)
                    ELSE pass_read
    /\ pushed' = Append(pushed, Tile(ii, jj, buffer_select))
    /\ dma_buffer' = buffer_select
    /\ index_fault' = (index_fault \/ ~(/\ \A i_cell \in i_cells(ii) :
                                              InRows(i_cell)
                                         /\ \A j_cell \in j_cells(jj) :
                                              InCols(j_cell)))
    /\ buffer_select' = Toggled(buffer_select)
    /\ IF jj + 1 < M_TILES
       THEN /\ jj' = jj + 1
            /\ ii' = ii
            /\ draw_pc' = "tile"
       ELSE /\ jj' = 0
            /\ ii' = ii + 1
            /\ draw_pc' = IF ii + 1 < N_TILES THEN "tile" ELSE "end_write"
    /\ UNCHANGED <<heap, content, velocity, fields, color_mutex,
                   color_semaphore, refresh_count, sim_pc, sim_locals,
                   arg_red, arg_green, arg_blue, sim_hist, unread, ahead,
                   telemetry>>

\* lines 68-69: draw_color_field returns, its parameters and locals end
draw_end_write ==
    /\ draw_pc = "end_write"
    /\ arg_red' = NULL
    /\ arg_green' = NULL
    /\ arg_blue' = NULL
    /\ buffer_select' = 0
    /\ ii' = 0
    /\ jj' = 0
    /\ tile_read' = <<Blank, Blank, Blank>>
    /\ pass_read' = <<Blank, Blank, Blank>>
    /\ pushed' = <<>>
    /\ UNCHANGED dma_buffer
    /\ draw_pc' = "give_mutex"
    /\ UNCHANGED <<heap, content, velocity, fields, color_mutex,
                   color_semaphore, refresh_count, sim_pc, sim_locals,
                   sim_hist, unread, ahead,
                   telemetry, index_fault>>

\* a render pass that returns without giving the mutex
draw_give_mutex_kept ==
    /\ draw_pc = "give_mutex"
    /\ draw_pc' = "take_semaphore"
    /\ UNCHANGED <<heap, content, velocity, fields, color_mutex,
                   color_semaphore,
                   refresh_count, sim_pc, sim_locals, draw_locals, sim_hist,
                   draw_hist, unread, ahead,
                   telemetry, index_fault>>

\* line 80
draw_give_mutex ==
    /\ draw_pc = "give_mutex"
    /\ MutexGive("draw")
    /\ draw_pc' = "take_semaphore"
    /\ UNCHANGED <<heap, content, velocity, fields, color_semaphore,
                   refresh_count, sim_pc, sim_locals, draw_locals, sim_hist,
                   draw_hist, unread, ahead,
                   telemetry, index_fault>>

draw_routine ==
    \/ draw_init
    \/ draw_take_semaphore
    \/ draw_take_mutex
    \/ draw_call
    \/ draw_tile
    \/ draw_end_write
    \/ draw_give_mutex

Next == sim_routine \/ draw_routine

Spec == Init /\ [][Next]_vars

\* the simulation task alone: the behaviours in which render is not scheduled
SimNext == sim_routine
SimSpec == Init /\ [][SimNext]_vars

\* the two tasks on one core: draw_routine has the higher priority (lines
\* 263-264) and runs whenever it is not blocked
OneCoreNext ==
    \/ draw_routine
    \/ ~ENABLED draw_routine /\ sim_routine
OneCoreSpec == Init /\ [][OneCoreNext]_vars

\* the scheduler lets each task run again and again while it is not blocked
FairSpec == Spec /\ WF_vars(sim_routine) /\ WF_vars(draw_routine)

(* ------------------------------------------------------------------ *)
(* Predicates used by the properties                                   *)
(* ------------------------------------------------------------------ *)
\* sim_routine is between its mutex take (line 125) and give (line 150)
SimInCommit ==
    sim_pc \in {"new_color", "advect_red", "advect_green", "advect_blue",
                "delete_color", "give_mutex"}

\* sim_routine is in steps 1-5 of a tick (lines 88-121)
SimInSteps1to5 ==
    sim_pc \in {"new_velocity", "advect_velocity", "delete_velocity", "force",
                "read_pin", "new_scratch", "project", "delete_scratch"}

\* draw_routine is between line 79 and the return of draw_color_field
DrawInPass == draw_pc \in {"tile", "end_write"}

\* draw_routine is between its mutex take (line 78) and give (line 80)
DrawHoldsMutex == draw_pc \in {"call", "tile", "end_write", "give_mutex"}

\* a tile of the pass has been sampled
TileSampled == DrawInPass /\ (ii > 0 \/ jj > 0)

\* three samples of one frame: the red, green and blue channel written by
\* the same commit
OneFrame(read) ==
    /\ read[1][1] = "red"
    /\ read[2][1] = "green"
    /\ read[3][1] = "blue"
    /\ read[1][2] = read[2][2]
    /\ read[2][2] = read[3][2]

Held(r, g, b) == <<content[r], content[g], content[b]>>

\* the tick so far, from tick_log
Positions(op) == {k \in 1..Len(tick_log) : tick_log[k][1] = op}
Count(op) == Cardinality(Positions(op))
Before(a, b) == \A k \in Positions(b) : \E h \in Positions(a) : h < k
SlotOf(op) == tick_log[CHOOSE k \in Positions(op) : TRUE][2]
TickDone == tick_log # <<>> /\ tick_log[Len(tick_log)][1] = "report"

\* the four cells (R/2, C/2), (R/2+1, C/2), (R/2, C/2+1), (R/2+1, C/2+1)
FourCells ==
    {<<N_ROWS \div 2, N_COLS \div 2>>, <<N_ROWS \div 2 + 1, N_COLS \div 2>>,
     <<N_ROWS \div 2, N_COLS \div 2 + 1>>,
     <<N_ROWS \div 2 + 1, N_COLS \div 2 + 1>>}

(* ------------------------------------------------------------------ *)
(* Properties                                                          *)
(* ------------------------------------------------------------------ *)

\* C1: whenever render reads the colour field references (line 79) or their
\* cells (lines 54-56), no commit is in progress: the simulation task is
\* outside lines 126-150 and the three references hold the three channels
\* of one commit; every tile sampled so far shows one frame.
C1_NoPartialCommitRead ==
    /\ draw_pc = "call" =>
         /\ ~SimInCommit
         /\ OneFrame(Held(red_field, green_field, blue_field))
    /\ draw_pc = "tile" =>
         /\ ~SimInCommit
         /\ OneFrame(Held(arg_red, arg_green, arg_blue))
         /\ <<arg_red, arg_green, arg_blue>> =
              <<red_field, green_field, blue_field>>
    /\ TileSampled => OneFrame(tile_read)

C1_Witness ==
    /\ draw_pc = "tile"
    /\ ii = N_TILES - 1
    /\ jj = M_TILES - 1
    /\ tile_read[1] = <<"red", 1>>
    /\ sim_pc = "take_mutex"

\* C2 as stated: there are never two commits completed without a render
\* pass started between them.
C2_BacklogAtMostOne == unread <= 1

\* C2 amended: while render holds the mutex the simulation task is outside
\* its commit and no commit completes during the pass; the simulation task
\* waits at its mutex take only for render; the ready-signal holds at most
\* one notification whatever the number of commits.
C2_BackpressureWhileRenderHolds ==
    /\ DrawHoldsMutex => ~SimInCommit /\ color_mutex = "draw"
    /\ DrawInPass => unread = 0
    /\ (sim_pc = "take_mutex" /\ color_mutex # "free") => color_mutex = "draw"
    /\ color_semaphore \in 0..SemaphoreLength

C2_Witness ==
    /\ draw_pc = "take_semaphore"
    /\ color_semaphore = SemaphoreLength
    /\ unread = MaxUnread
    /\ sim_pc = "give_semaphore"

\* C3: during a render pass render holds the mutex, from before the first
\* tile is filled until the last tile has been pushed; in no step of the
\* pass is a colour field reference changed, a colour buffer written or a
\* colour buffer freed; every tile shows the frame of the first tile.
C3_Pass ==
    [](/\ DrawInPass => color_mutex = "draw"
       /\ TileSampled => tile_read = pass_read)

C3_PassSteps ==
    [][(draw_pc \in {"call", "tile"}) =>
          /\ red_field' = red_field
          /\ green_field' = green_field
          /\ blue_field' = blue_field
          /\ content'[red_field] = content[red_field]
          /\ content'[green_field] = content[green_field]
          /\ content'[blue_field] = content[blue_field]
          /\ heap'[red_field] = "live"
          /\ heap'[green_field] = "live"
          /\ heap'[blue_field] = "live"]_vars

C3_OneFramePerPass == C3_Pass /\ C3_PassSteps

C3_Witness ==
    /\ draw_pc = "end_write"
    /\ color_mutex = "draw"
    /\ tile_read = pass_read
    /\ OneFrame(tile_read)
    /\ sim_pc = "take_mutex"

\* C4: the ready-signal holds 0 or 1 notification; the render passes started
\* never outnumber the commits completed, so no pass starts before the first
\* commit has completed; a pass starts on three channels of one commit.
C4_ReadySignal ==
    /\ color_semaphore \in {0, 1}
    /\ ahead >= 0
    /\ draw_pc = "call" => OneFrame(Held(red_field, green_field, blue_field))

C4_Witness ==
    /\ draw_pc = "call"
    /\ ahead = 2
    /\ color_semaphore = 1

\* C5 as stated: when render is at its mutex take the mutex is free.
C5_RenderFindsMutexFree == draw_pc = "take_mutex" => color_mutex = "free"

\* C5 amended: the simulation task can be without an enabled step only at
\* its mutex take, when render holds the mutex; render can be without an
\* enabled step at the ready-signal wait, when no notification is pending,
\* and at its mutex take, when the simulation task holds the mutex.
C5_SuspensionPoints ==
    /\ ~ENABLED sim_routine =>
         sim_pc = "take_mutex" /\ color_mutex = "draw"
    /\ ~ENABLED draw_routine =>
         \/ draw_pc = "take_semaphore" /\ color_semaphore = 0
         \/ draw_pc = "take_mutex" /\ color_mutex = "sim"

C5_Witness ==
    /\ draw_pc = "take_mutex"
    /\ color_mutex = "sim"
    /\ ~ENABLED draw_routine

\* C6: the forcing step (lines 102-109) with the input read LOW adds (0, 10)
\* to each of the four centre cells and leaves every other cell as it was;
\* with the input read HIGH it leaves every cell as it was; the delta moves
\* the fluid by at most one cell in a time step: |dv| * DT <= 1.
C6_ForcingStep ==
    [][(sim_pc = "force" /\ sim_pc' # "force") =>
         LET level == pin0
         IN  /\ level \in {"LOW", "HIGH"}
             /\ level = "LOW" =>
                   \A c \in Cells :
                     Index(velocity', c[1], c[2]) =
                       IF c \in FourCells
                       THEN VecAdd(Index(velocity, c[1], c[2]), <<0, 10>>)
                       ELSE Index(velocity, c[1], c[2])
             /\ level = "HIGH" =>
                   \A c \in Cells :
                     Index(velocity', c[1], c[2]) = Index(velocity, c[1], c[2])
             /\ (dv[1] * dv[1] + dv[2] * dv[2]) * DT_NUM * DT_NUM
                   <= DT_DEN * DT_DEN]_vars

C6_Witness ==
    /\ sim_pc = "new_scratch"
    /\ velocity.flow = 1
    /\ Index(velocity, N_ROWS \div 2 + 1, N_COLS \div 2 + 1) =
         VecAdd(FlowAt(1, N_ROWS \div 2 + 1, N_COLS \div 2 + 1), <<0, 10>>)
    /\ Index(velocity, N_ROWS \div 2 + 2, N_COLS \div 2) =
         FlowAt(1, N_ROWS \div 2 + 2, N_COLS \div 2)

\* C7: outside its mutex take the simulation task always has an enabled
\* step: it waits for no action of render.  The witness is render in the
\* middle of a pass, holding the mutex, with the simulation task in steps
\* 1-5 of the tick after the commit being drawn.
C7_SimWaitsOnlyAtTake ==
    sim_pc # "take_mutex" => ENABLED sim_routine

C7_Witness ==
    /\ color_mutex = "draw"
    /\ draw_pc = "tile"
    /\ ii = 1
    /\ jj = 2
    /\ SimInSteps1to5
    /\ sim_pc = "project"
    /\ ahead = 0
    /\ OneFrame(pass_read)
    /\ ENABLED sim_routine

\* C8: a render pass starts only on a committed frame on which no pass has
\* started: at least one commit has completed since the pass before.
C8_PassDrawsUnreadFrame ==
    draw_pc = "call" => unread >= 1

\* C9: in every tick the simulation task finishes the self-advection, the
\* forcing and the projection before it takes the mutex; takes the mutex
\* once and gives it once, holding it in between; swaps red, green and
\* blue and frees the spare buffer while it holds the mutex; and gives the
\* ready-signal once, after it has given the mutex.
C9_CommitOrder ==
    /\ Count("take_mutex") <= 1
    /\ Count("give_mutex") <= 1
    /\ Count("give_semaphore") <= 1
    /\ TickDone => /\ Count("take_mutex") = 1
                   /\ Count("give_mutex") = 1
                   /\ Count("give_semaphore") = 1
    /\ Before("advect_velocity", "take_mutex")
    /\ Before("force", "take_mutex")
    /\ Before("project", "take_mutex")
    /\ Before("take_mutex", "swap_red")
    /\ Before("swap_red", "swap_green")
    /\ Before("swap_green", "swap_blue")
    /\ Before("swap_blue", "delete_color")
    /\ Before("delete_color", "give_mutex")
    /\ Before("give_mutex", "give_semaphore")
    /\ color_mutex = "sim" <=>
         Count("take_mutex") = 1 /\ Count("give_mutex") = 0
    /\ sim_pc = "give_semaphore" => color_mutex # "sim"

C9_Witness ==
    /\ TickDone
    /\ Count("give_semaphore") = 1
    /\ color_semaphore = 1
    /\ color_mutex = "draw"

\* C10: a commit allocates one colour buffer and frees one; once the spare
\* is freed red_field is the buffer allocated in the commit, green_field
\* the buffer red_field was before, blue_field the buffer green_field was
\* before, and the buffer freed is the one blue_field was before.
C10_Rotation ==
    /\ Count("new_color") <= 1
    /\ Count("delete_color") <= 1
    /\ Count("give_mutex") = 1 =>
         /\ Count("new_color") = 1
         /\ Count("delete_color") = 1
         /\ \A k \in 1..Len(tick_log) :
              (/\ \E h \in Positions("take_mutex") : h < k
               /\ \E h \in Positions("give_mutex") : k < h)
              => tick_log[k][1] \in {"new_color", "swap_red", "swap_green",
                                     "swap_blue", "delete_color"}
    /\ Count("delete_color") = 1 =>
         /\ red_field = SlotOf("new_color")
         /\ SlotOf("new_color") \notin {pre_red, pre_green, pre_blue}
         /\ green_field = pre_red
         /\ blue_field = pre_green
         /\ SlotOf("delete_color") = pre_blue
    /\ sim_pc = "give_mutex" =>
         /\ heap[pre_blue] = "free"
         /\ heap[red_field] = "live"
         /\ heap[green_field] = "live"
         /\ heap[blue_field] = "live"

C10_Witness ==
    /\ sim_pc = "give_mutex"
    /\ Count("delete_color") = 1
    /\ pre_red # NULL
    /\ green_field = pre_red
    /\ draw_pc = "take_mutex"

\* C11: at every call of semilagrangian_advect (lines 90, 132, 137, 142) the
\* destination is a live buffer that is neither the source buffer nor the
\* velocity field the call samples, and the source and the velocity field
\* are live: the operator never runs in place.
C11_AdvectNotInPlace ==
    /\ sim_pc = "advect_velocity" =>
         /\ heap[temp_vector_field] = "live"
         /\ heap[velocity_field] = "live"
         /\ temp_vector_field # velocity_field
    /\ sim_pc \in {"advect_red", "advect_green", "advect_blue"} =>
         LET src == CASE sim_pc = "advect_red" -> red_field
                      [] sim_pc = "advect_green" -> green_field
                      [] OTHER -> blue_field
         IN  /\ temp_color_field \in Slots
             /\ heap[temp_color_field] = "live"
             /\ heap[src] = "live"
             /\ heap[velocity_field] = "live"
             /\ temp_color_field # src
             /\ temp_color_field # velocity_field

C11_Witness ==
    /\ sim_pc = "advect_blue"
    /\ temp_color_field = pre_green
    /\ unread >= 1
    /\ draw_pc = "take_mutex"

\* C12: a tick allocates five fields and frees five; every live field is
\* referenced by a global or by the local that owns it; at the tick
\* boundary the live fields are the velocity field and the three colour
\* fields, four in all; no state has more than six live fields.
C12_AllocationBalance ==
    /\ Cardinality(Live(heap)) <= 6
    /\ Live(heap) \subseteq
         {velocity_field, red_field, green_field, blue_field,
          to_delete_vector, temp_vector_field, divergence_field,
          pressure_field, temp_color_field, new_divergence_field}
    /\ Count("new") + Count("new_color") <= 5
    /\ Count("delete") + Count("delete_color")
         <= Count("new") + Count("new_color")
    /\ TickDone =>
         /\ Count("new") + Count("new_color") = 5
         /\ Count("delete") + Count("delete_color") = 5
    /\ sim_pc = "new_velocity" =>
         /\ Live(heap) = {velocity_field, red_field, green_field, blue_field}
         /\ Cardinality(Live(heap)) = 4

C12_Witness ==
    /\ sim_pc = "project"
    /\ Cardinality(Live(heap)) = 6
    /\ Count("new") = 3
    /\ draw_pc = "tile"

\* the tiles of the pass in which cell c has been sampled
TilesSampling(c) ==
    {k \in 1..Len(pushed) : c[1] \in pushed[k].rows /\ c[2] \in pushed[k].cols}

\* the pixel rectangles of two tiles have no pixel in common
DisjointTiles(a, b) ==
    \/ a.x + a.w <= b.x
    \/ b.x + b.w <= a.x
    \/ a.y + a.h <= b.y
    \/ b.y + b.h <= a.y

RECURSIVE TileArea(_)
TileArea(k) == IF k = 0 THEN 0 ELSE pushed[k].w * pushed[k].h + TileArea(k - 1)

\* C13: when the last tile of a pass has been handed to the sink, every
\* cell (i, j) of the N_ROWS x N_COLS grid has been sampled in exactly one
\* tile; every fillRect of a SCALING x SCALING block starts at an offset in
\* [0, TILE_HEIGHT - SCALING] x [0, TILE_WIDTH - SCALING] of its tile
\* buffer; the N_TILES x M_TILES rectangles pushed lie on the screen, are
\* pairwise disjoint and their areas add up to SCREEN_HEIGHT x SCREEN_WIDTH,
\* so they cover the screen.
C13_TileCoverage ==
    draw_pc = "end_write" =>
      /\ Len(pushed) = N_TILES * M_TILES
      /\ \A c \in Cells : Cardinality(TilesSampling(c)) = 1
      /\ \A k \in 1..Len(pushed) :
           /\ pushed[k].fill_y \subseteq 0..(TILE_HEIGHT - SCALING)
           /\ pushed[k].fill_x \subseteq 0..(TILE_WIDTH - SCALING)
           /\ pushed[k].x >= 0
           /\ pushed[k].y >= 0
           /\ pushed[k].x + pushed[k].w <= SCREEN_WIDTH
           /\ pushed[k].y + pushed[k].h <= SCREEN_HEIGHT
      /\ \A k, l \in 1..Len(pushed) :
           k # l => DisjointTiles(pushed[k], pushed[l])
      /\ TileArea(Len(pushed)) = SCREEN_HEIGHT * SCREEN_WIDTH

C13_Witness ==
    /\ draw_pc = "end_write"
    /\ Len(pushed) = 16
    /\ pushed[16].x = 180
    /\ pushed[16].y = 240
    /\ TilesSampling(<<79, 59>>) = {16}
    /\ TilesSampling(<<20, 15>>) = {6}

\* C14: the tile buffer about to be filled is never the one handed to the
\* latest pushImageDMA, for every tile of a pass, the first tile of a pass
\* that follows another pass included; consecutive tiles of a pass are
\* pushed from different tile buffers.
C14_DoubleBuffering ==
    /\ draw_pc = "tile" => buffer_select # dma_buffer
    /\ buffer_select \in {0, 1}
    /\ \A k \in 1..Len(pushed) :
         k > 1 => pushed[k].buffer # pushed[k - 1].buffer

C14_Witness ==
    /\ draw_pc = "tile"
    /\ ii = 0
    /\ jj = 0
    /\ dma_buffer = 1
    /\ buffer_select = 0

\* the diagnostic of this tick has run and its values are still in scope
AfterDiagnostic == sim_pc \in {"delete_divergence", "report"}

\* C15: max_abs_pct_density starts at 0; the diagnostic step (line 173)
\* leaves it at the larger of its value before and the current value of the
\* tick, and no other step changes it, so that it is the maximum of the
\* current values of all ticks so far; after the diagnostic it is at least
\* the current value; it never decreases.
C15_RunningMaximum ==
    /\ max_abs_pct_density = 0
    /\ [](AfterDiagnostic => max_abs_pct_density >= current_abs_pct_density)
    /\ [][/\ max_abs_pct_density' >= max_abs_pct_density
          /\ IF sim_pc = "diagnostic"
             THEN max_abs_pct_density' =
                    IF current_abs_pct_density' > max_abs_pct_density
                    THEN current_abs_pct_density'
                    ELSE max_abs_pct_density
             ELSE max_abs_pct_density' = max_abs_pct_density]_vars

C15_Witness ==
    /\ sim_pc = "report"
    /\ current_abs_pct_density = 0
    /\ max_abs_pct_density = 10
    /\ velocity.flow = 0

\* the operations of the tick between timestamp k - 1 (last_reported for
\* k = 0) and timestamp k
OpsIn(k) ==
    LET from == IF k = 0 THEN last_reported ELSE point_timestamps[k - 1]
    IN  {tick_log[p][1] : p \in (from + 1)..point_timestamps[k]}

\* the five timestamps of a tick that collects them have been taken
StampsTaken == sim_pc = "report" /\ refresh_count = 0

RECURSIVE SumTo(_, _)
SumTo(f, k) == IF k < 0 THEN 0 ELSE f[k] + SumTo(f, k - 1)

\* the five percentages of a report add up to 100
SumsTo100 ==
    reported # <<>> =>
      /\ reported.total_time > 0
      /\ SumTo(reported.pct_taken, 4) = 100 * reported.total_time

\* C16 as stated: the five intervals are self-advection with projection,
\* the wait for the mutex, colour advection with commit, the diagnostic
\* scan, and an idle remainder; the percentages add up to 100.
C16_PhasesAsStated ==
    /\ StampsTaken =>
         /\ OpsIn(0) = {"new", "advect_velocity", "delete", "force", "project"}
         /\ OpsIn(1) = {"take_mutex"}
         /\ OpsIn(2) = {"new_color", "swap_red", "swap_green", "swap_blue",
                        "delete_color", "give_mutex", "give_semaphore"}
         /\ OpsIn(3) = {"new", "diagnostic", "delete"}
    /\ SumsTo100

\* C16 amended: the five intervals of a report are, in order, the
\* self-advection of the velocity; forcing and projection; the wait for
\* the mutex; colour advection, commit and ready-signal; the diagnostic
\* scan.  They are taken in the first tick after the report before, they
\* leave no remainder (the last timestamp ends the total), and the five
\* percentages add up to 100.
C16_PhasesAsMeasured ==
    /\ StampsTaken =>
         /\ OpsIn(0) = {"new", "advect_velocity", "delete"}
         /\ OpsIn(1) = {"force", "new", "project", "delete"}
         /\ OpsIn(2) = {"take_mutex"}
         /\ OpsIn(3) = {"new_color", "swap_red", "swap_green", "swap_blue",
                        "delete_color", "give_mutex", "give_semaphore"}
         /\ OpsIn(4) = {"new", "diagnostic", "delete"}
         /\ point_timestamps[4] = last_reported + Len(tick_log)
    /\ refresh_count > 0 => \A k \in 1..4 :
                              point_timestamps[k] > point_timestamps[k - 1]
    /\ SumsTo100
    /\ reported # <<>> =>
         /\ SumTo(reported.time_taken, 4) = reported.total_time
         /\ \A k \in 0..4 : reported.time_taken[k] > 0

C16_Witness ==
    /\ reported # <<>>
    /\ reported.time_taken[2] = 1
    /\ reported.pct_taken[2] = 100
    /\ reported.total_time = 20
    /\ sim_pc = "report"
    /\ refresh_count = 1
    /\ color_mutex = "draw"

\* C17: red_field, green_field and blue_field are three different buffers,
\* all live (a fortiori when the simulation task does not hold the mutex);
\* every delete is of a live buffer that no installed reference names, so
\* no buffer is freed twice; the buffers render samples are live.
C17_BuffersDistinctAndLive ==
    /\ Cardinality({red_field, green_field, blue_field}) = 3
    /\ heap[red_field] = "live"
    /\ heap[green_field] = "live"
    /\ heap[blue_field] = "live"
    /\ heap[velocity_field] = "live"
    /\ sim_pc = "delete_velocity" =>
         /\ heap[to_delete_vector] = "live"
         /\ to_delete_vector # velocity_field
    /\ sim_pc = "delete_scratch" =>
         /\ heap[divergence_field] = "live"
         /\ heap[pressure_field] = "live"
         /\ divergence_field # pressure_field
    /\ sim_pc = "delete_color" =>
         /\ heap[temp_color_field] = "live"
         /\ temp_color_field \notin {red_field, green_field, blue_field}
    /\ sim_pc = "delete_divergence" =>
         /\ heap[new_divergence_field] = "live"
         /\ new_divergence_field \notin
              {velocity_field, red_field, green_field, blue_field}
    /\ draw_pc = "tile" =>
         /\ heap[arg_red] = "live"
         /\ heap[arg_green] = "live"
         /\ heap[arg_blue] = "live"

C17_Witness ==
    /\ draw_pc = "tile"
    /\ ii = 3
    /\ sim_pc = "delete_scratch"
    /\ arg_red = 1
    /\ heap[arg_red] = "live"

\* C18: in every reachable state the simulation task or the render task
\* has an enabled step; in particular the two are never both waiting, the
\* simulation task at its mutex take and render at the ready-signal wait or
\* at its mutex take.
C18_DeadlockFree ==
    /\ ENABLED draw_routine \/ ENABLED sim_routine
    /\ ~(/\ sim_pc = "take_mutex"
         /\ ~ENABLED sim_routine
         /\ draw_pc \in {"take_semaphore", "take_mutex"})

C18_Witness ==
    /\ sim_pc = "take_mutex"
    /\ ~ENABLED sim_routine
    /\ draw_pc = "give_mutex"
    /\ color_semaphore = 0
    /\ ENABLED draw_routine

C20_IndexInRange ==
    /\ ~index_fault
    /\ \A c \in DOMAIN velocity.written : InRows(c[1]) /\ InCols(c[2])
    /\ \A k \in 1..Len(pushed) :
         /\ pushed[k].rows \subseteq 0..(N_ROWS - 1)
         /\ pushed[k].cols \subseteq 0..(N_COLS - 1)

C20_Witness ==
    /\ ~index_fault
    /\ draw_pc = "end_write"
    /\ Len(pushed) = N_TILES * M_TILES
    /\ sim_pc = "new_scratch"
    /\ Cardinality(DOMAIN velocity.written) = 4
    /\ max_abs_pct_density > 0

====
